---- MODULE Spec2Model ----
(***************************************************************************)
(* Authentication core of knand4930/fastapi-authentication:                *)
(*   - AuthRegistry (exempt path prefixes),                                *)
(*   - UnifiedAuthMiddleware.dispatch and its three credential branches,   *)
(*   - the Token model (constructor, expiry properties, refresh),          *)
(*   - the login and access-token exchange routes,                         *)
(*   - the permission decorators and classes, and PermissionManager,       *)
(*   - callers of the registry and requests in flight, interleaved.        *)
(* Time is counted in hours: the configured lifetimes are 26 h and 168 h.  *)
(***************************************************************************)
EXTENDS Integers, Sequences, FiniteSets, TLC

\* ------------------------------------------------------------------ bounds
\* How many token records the store may hold.
MaxTokens == 1
\* The largest opaque token string that may be generated.
MaxStr == 4
\* The clock advance between two utcnow() reads of one method, when there
\* is one.
MaxDrift == 1
\* Permission names are 1..MaxPerms; a list of required permissions has at
\* most MaxReq entries.
MaxPerms == 2
MaxReq == 2
\* A LogicalOR, a LogicalAND or the list of permission_required has at most
\* MaxKids permission objects.
MaxKids == 2

\* --------------------------------------------------------------- settings
\* settings.TOKEN_EXPIRE lifetimes, in hours.
ACCESS_TOKEN_LIFETIME == 26
REFRESH_TOKEN_LIFETIME == 168

\* settings.TOKEN_EXPIRE: the dict has exactly these three keys.
TOKEN_EXPIRE ==
    [ ACCESS_TOKEN_LIFETIME  |-> ACCESS_TOKEN_LIFETIME,
      REFRESH_TOKEN_LIFETIME |-> REFRESH_TOKEN_LIFETIME,
      AUTH_HEADER_TYPES      |-> <<"JWT">> ]

\* Python's d[k]: a KeyError when k is not a key of d.
HasKey(d, k) == k \in DOMAIN d

\* ------------------------------------------------------------------ users
None == "None"
\* The users table: u1 is an active superuser, u2 an active user without the
\* superuser flag, u3 a deactivated user.
Users == {"u1", "u2", "u3"}
\* User.is_active
is_active(u) == u # "u3"
\* User.is_superuser
is_superuser(u) == u = "u1"

\* ------------------------------------------------------------------ paths
\* A path is the concatenation of its chunks; the chunks form a prefix-free
\* code, so str.startswith on the strings is the prefix order on the chunks.
StartsWith(s, p) == Len(p) <= Len(s) /\ SubSeq(s, 1, Len(p)) = p

\* AuthRegistry._exempt_paths as the class body sets it.
BaselineExempt ==
    { <<"/admin", "/login">>,
      <<"/docs#/default/read_item_items__item_id__get/">>,
      <<"/static">>,
      <<"/favicon.ico">>,
      <<"/admin", "/static">>,
      <<"/api/auth/", "register/">>,
      <<"/api/auth/", "login/">>,
      <<"/api/auth/", "access/token/">> }

\* Paths a route may register through requires_permission(exempt_path=True).
RegistrablePaths == { <<"/api/orders/">> }

\* The request paths of the model.
RequestPaths ==
    { <<"/admin", "/login">>,
      <<"/static", "/x">>,
      <<"/admin", "/x">>,
      <<"/api/orders/">>,
      <<"/api/get/current/user/">> }

VARIABLES
    now,          \* datetime.utcnow(), in hours
    tokens,       \* the tokens table: slot -> Token row, or NoToken
    nextStr,      \* the next fresh opaque string
    exempt_paths, \* AuthRegistry._exempt_paths
    resp,         \* the request the middleware just handled, and its outcome
    xres,         \* the call of the exchange route just made, and its outcome
    rres,         \* the call of a Token method just made, and its outcome
    pres,         \* the permission check just made, and its outcome
    permission_rows,  \* the permissions table: the names that have a row
    user_permissions, \* user.permissions of each user: a list of names
    mres,             \* the PermissionManager call just made, and its outcome
    registered,   \* the prefixes whose register_exempt_path call completed
    lookups,      \* the _is_path_exempt call of each caller, while it runs
    returned,     \* the set a caller holds from get_exempt_paths()
    inflight,     \* the request each worker is handling, and how far it got
    request_state \* request.state.user of the request of each worker

\* The state of the PermissionManager, of the registry's callers and of the
\* requests in flight.
managerVars == <<permission_rows, user_permissions, mres>>
callerVars == <<lookups, returned>>
requestVars == <<inflight, request_state>>

vars == <<now, tokens, nextStr, exempt_paths, resp, xres, rres, pres, managerVars, registered, callerVars, requestVars>>

\* ------------------------------------------------------------ Token model
Slots == 1..MaxTokens

NoToken ==
    [ user_id |-> None, access_token |-> 0, refresh_token |-> 0,
      is_active |-> FALSE, access_expires_at |-> 0, refresh_expires_at |-> 0 ]

Present(tok) == tok.user_id # None

\* Token.__init__: two fresh strings, and each expiry from its own utcnow()
\* read (t1, then t2); is_active takes the column default on insert.
TokenNew(user_id, a, r, t1, t2) ==
    [ user_id            |-> user_id,
      access_token       |-> a,
      refresh_token      |-> r,
      is_active          |-> TRUE,
      access_expires_at  |-> t1 + TOKEN_EXPIRE.ACCESS_TOKEN_LIFETIME,
      refresh_expires_at |-> t2 + TOKEN_EXPIRE.REFRESH_TOKEN_LIFETIME ]

\* The side effect the three expiry properties share.
Observe(tok, expired) ==
    IF expired /\ tok.is_active THEN [tok EXCEPT !.is_active = FALSE] ELSE tok

\* Token.is_expired
is_expired(tok, t) ==
    LET expired == t > tok.access_expires_at \/ t > tok.refresh_expires_at
    IN  [expired |-> expired, tok |-> Observe(tok, expired)]

\* Token.is_access_expired
is_access_expired(tok, t) ==
    LET expired == t > tok.access_expires_at
    IN  [expired |-> expired, tok |-> Observe(tok, expired)]

\* Token.is_refresh_expired
is_refresh_expired(tok, t) ==
    LET expired == t > tok.refresh_expires_at
    IN  [expired |-> expired, tok |-> Observe(tok, expired)]

\* Token.validate
validate(tok, t) ==
    IF ~tok.is_active
    THEN [result |-> FALSE, tok |-> tok]
    ELSE LET chk == is_expired(tok, t)
         IN  [result |-> ~chk.expired, tok |-> chk.tok]

\* Token.deactivate
deactivate(tok) == [tok EXCEPT !.is_active = FALSE]

\* A refresh that marks the token active again when it rotates the access
\* string.
refresh_Reactivate(tok, t1, t2, a) ==
    LET chk == is_refresh_expired(tok, t1) IN
    IF chk.expired
    THEN [result |-> "ValueError", tok |-> chk.tok]
    ELSE [result |-> "KeyError",
          tok |-> [chk.tok EXCEPT
                     !.access_token = a,
                     !.access_expires_at = t2 + TOKEN_EXPIRE.ACCESS_TOKEN_LIFETIME,
                     !.is_active = TRUE]]

\* Token.refresh without the test of the refresh expiry.
refresh_Unchecked(tok, t1, t2, a) ==
    LET tok1 == [tok EXCEPT
                   !.access_token = a,
                   !.access_expires_at = t2 + TOKEN_EXPIRE.ACCESS_TOKEN_LIFETIME]
    IN  IF ~HasKey(TOKEN_EXPIRE, "REFRESH_TOKEN_RENEWAL_THRESHOLD")
        THEN [result |-> "KeyError", tok |-> tok1]
        ELSE [result |-> "ok", tok |-> tok1]

\* Token.refresh, with t1 the utcnow() of is_refresh_expired, t2 the later
\* utcnow() of line 100 and a the fresh access string. The method returns
\* None ("ok") or raises; the fields it assigned before raising stay assigned.
refresh(tok, t1, t2, a) ==
    LET chk == is_refresh_expired(tok, t1) IN
    IF chk.expired
    THEN [result |-> "ValueError", tok |-> chk.tok]
    ELSE LET tok1 == [chk.tok EXCEPT
                        !.access_token = a,
                        !.access_expires_at = t2 + TOKEN_EXPIRE.ACCESS_TOKEN_LIFETIME]
         IN  IF ~HasKey(TOKEN_EXPIRE, "REFRESH_TOKEN_RENEWAL_THRESHOLD")
             THEN [result |-> "KeyError", tok |-> tok1]
             ELSE IF (tok1.refresh_expires_at - t2)
                       < TOKEN_EXPIRE["REFRESH_TOKEN_RENEWAL_THRESHOLD"]
                  THEN [result |-> "ok",
                        tok |-> [tok1 EXCEPT !.refresh_expires_at =
                                   t2 + TOKEN_EXPIRE.REFRESH_TOKEN_LIFETIME]]
                  ELSE [result |-> "ok", tok |-> tok1]

\* ------------------------------------------------- requests and their log
\* A session holds user ids under "user_id" and "admin_user_id" and the
\* marker "admin_token"; None is an absent key.
Session(user_id, admin_user_id, admin_token) ==
    [user_id |-> user_id, admin_user_id |-> admin_user_id, admin_token |-> admin_token]

\* The sessions of the model: empty; a logged-in user (active, deactivated);
\* what AdminAuth.login leaves (both admin keys, a superuser); an admin user
\* id without the marker; and sessions whose user_id names the deactivated
\* user beside an admin_user_id.
Sessions ==
    { Session(None, None, FALSE),
      Session("u2", None, FALSE),
      Session("u3", None, FALSE),
      Session(None, "u1", TRUE),
      Session(None, "u2", FALSE),
      Session(None, "u3", TRUE),
      Session("u3", "u2", FALSE),
      Session("u3", "u1", TRUE) }

\* The text of an Authorization header is scheme, separator, credential;
\* the empty text is the absent (or empty) header. Credential 0 is a string
\* that no token carries.
Header(scheme, sep, cred) == [scheme |-> scheme, sep |-> sep, cred |-> cred]
NoHeader == Header("", "", 0)
Creds == 0..(nextStr - 1)
Headers ==
    {NoHeader, Header("Token", " ", 0), Header("JWT", "", 0)}
    \cup {Header("JWT", " ", c) : c \in Creds}

\* The requests of the model: every header with the empty session, and every
\* other session with no header and with the first access string issued.
Requests ==
    { r \in [path : RequestPaths, session : Sessions, header : Headers] :
        \/ r.session = Session(None, None, FALSE)
        \/ r.header = NoHeader
        \/ r.header = Header("JWT", " ", 1) }

\* Where an exception is raised, if the request gets there: in one of the
\* store operations of the middleware, or in the downstream handler.
Hazards == {"none", "session", "admin", "token", "commit", "user", "handler"}

\* What dispatch did with a request: the response (kind, status, detail),
\* request.state.user at the end, whether call_next ran, the store handles
\* opened and closed, what was read, whether a store operation raised, the
\* session and the tokens table after.
Outcome(kind, status, detail, user, called, opened, closed, sess_read, hdr_read, looked, store_error, sess, toks, branch) ==
    [ kind |-> kind, status |-> status, detail |-> detail, user |-> user,
      handler_called |-> called, db_opened |-> opened, db_closed |-> closed,
      session_read |-> sess_read, header_read |-> hdr_read,
      token_lookup |-> looked, store_error |-> store_error,
      session_after |-> sess, tokens_after |-> toks, branch |-> branch ]

NoRequest ==
    [ path |-> <<>>, session |-> Session(None, None, FALSE), header |-> NoHeader,
      registry |-> {}, at |-> 0, before |-> <<>>,
      out |-> Outcome("none", 0, "", None, FALSE, 0, 0, FALSE, FALSE, FALSE, FALSE,
                      Session(None, None, FALSE), <<>>, "none") ]

NoExchange ==
    [ refresh_token |-> 0, status |-> 0, detail |-> "", access_token |-> 0,
      slot |-> 0, row |-> NoToken, at |-> 0 ]

NoCall ==
    [ op |-> "none", slot |-> 0, before |-> NoToken, after |-> NoToken,
      t1 |-> 0, t2 |-> 0, result |-> "none" ]

Call(op, slot, before, after, t1, t2, result) ==
    [ op |-> op, slot |-> slot, before |-> before, after |-> after,
      t1 |-> t1, t2 |-> t2, result |-> result ]

\* No call is in progress: the last response was returned.
Idle == resp = NoRequest /\ xres = NoExchange /\ rres = NoCall

\* The response goes back to the caller; the request and its state are dropped.
Return ==
    /\ ~Idle
    /\ resp' = NoRequest
    /\ xres' = NoExchange
    /\ rres' = NoCall
    /\ UNCHANGED <<now, tokens, nextStr, exempt_paths, pres, managerVars, registered, callerVars, requestVars>>

\* ------------------------------------------------------------------ clock
\* The instants at which a comparison of the code changes its answer: the
\* expiry instants of the stored tokens (utcnow() > expiry is still false
\* there) and the hour after each (it is true from there on).
Instants ==
    UNION { { tokens[s].access_expires_at, tokens[s].access_expires_at + 1,
              tokens[s].refresh_expires_at, tokens[s].refresh_expires_at + 1 } :
            s \in {x \in Slots : Present(tokens[x])} }

\* Time passes between two operations: the clock moves on to a later instant.
Tick ==
    /\ Idle
    /\ \E t \in Instants : t > now /\ now' = t
    /\ UNCHANGED <<tokens, nextStr, exempt_paths, resp, xres, rres, pres, managerVars, registered, callerVars, requestVars>>

\* The advance of the clock between two utcnow() reads of one method: none,
\* or some.
Drifts == {0, MaxDrift}

\* ------------------------------------------------------- Token operations
\* Token.refresh called on the token of a slot.
TokenRefresh(slot) ==
    /\ Idle
    /\ Present(tokens[slot])
    /\ nextStr <= MaxStr
    /\ \E d \in Drifts :
         LET r == refresh(tokens[slot], now, now + d, nextStr)
             t2 == IF r.result = "ValueError" THEN now ELSE now + d
         IN  /\ tokens' = [tokens EXCEPT ![slot] = r.tok]
             /\ rres' = Call("refresh", slot, tokens[slot], r.tok, now, t2, r.result)
             /\ nextStr' = IF r.result = "ValueError" THEN nextStr ELSE nextStr + 1
             /\ now' = t2
    /\ UNCHANGED <<exempt_paths, resp, xres, pres, managerVars, registered, callerVars, requestVars>>

\* Token.deactivate called on the token of a slot.
TokenDeactivate(slot) ==
    /\ Idle
    /\ Present(tokens[slot])
    /\ LET after == deactivate(tokens[slot]) IN
         /\ tokens' = [tokens EXCEPT ![slot] = after]
         /\ rres' = Call("deactivate", slot, tokens[slot], after, now, now, "ok")
    /\ UNCHANGED <<now, nextStr, exempt_paths, resp, xres, pres, managerVars, registered, callerVars, requestVars>>

\* Token.validate called on the token of a slot.
TokenValidate(slot) ==
    /\ Idle
    /\ Present(tokens[slot])
    /\ LET r == validate(tokens[slot], now) IN
         /\ tokens' = [tokens EXCEPT ![slot] = r.tok]
         /\ rres' = Call("validate", slot, tokens[slot], r.tok, now, now,
                         IF r.result THEN "True" ELSE "False")
    /\ UNCHANGED <<now, nextStr, exempt_paths, resp, xres, pres, managerVars, registered, callerVars, requestVars>>

\* One of the three expiry properties read on the token of a slot.
TokenReadExpiry(slot) ==
    /\ Idle
    /\ Present(tokens[slot])
    /\ \E p \in {"is_expired", "is_access_expired", "is_refresh_expired"} :
         LET r == CASE p = "is_expired" -> is_expired(tokens[slot], now)
                    [] p = "is_access_expired" -> is_access_expired(tokens[slot], now)
                    [] OTHER -> is_refresh_expired(tokens[slot], now)
         IN  /\ tokens' = [tokens EXCEPT ![slot] = r.tok]
             /\ rres' = Call(p, slot, tokens[slot], r.tok, now, now,
                             IF r.expired THEN "True" ELSE "False")
    /\ UNCHANGED <<now, nextStr, exempt_paths, resp, xres, pres, managerVars, registered, callerVars, requestVars>>

\* ------------------------------------------------------------------ login
\* user_login: the password check is the caller's; a Token is created for
\* the user, added and committed. is_active of the user is not looked at.
Login(u) ==
    /\ Idle
    /\ \E slot \in Slots :
         /\ ~Present(tokens[slot])
         /\ \A s \in Slots : s < slot => Present(tokens[s])
         /\ \E d \in Drifts :
              /\ tokens' = [tokens EXCEPT ![slot] =
                              TokenNew(u, nextStr, nextStr + 1, now, now + d)]
              /\ now' = now + d
    /\ nextStr' = nextStr + 2
    /\ UNCHANGED <<exempt_paths, resp, xres, rres, pres, managerVars, registered, callerVars, requestVars>>

\* ------------------------------------------------------------------ store
\* The user query without its is_active filter.
QueryActiveUser_AnyUser(uid) ==
    IF uid \in Users THEN uid ELSE None

\* db.query(User).filter(User.id == uid, User.is_active == True).first()
QueryActiveUser(uid) ==
    IF uid \in Users /\ is_active(uid) THEN uid ELSE None

\* db.query(Token).filter(Token.access_token == s).first(): a slot, or 0
QueryTokenByAccess(s) ==
    IF \E t \in Slots : Present(tokens[t]) /\ tokens[t].access_token = s
    THEN CHOOSE t \in Slots : Present(tokens[t]) /\ tokens[t].access_token = s
    ELSE 0

\* db.query(Token).filter(Token.refresh_token == s).first(): a slot, or 0
QueryTokenByRefresh(s) ==
    IF \E t \in Slots : Present(tokens[t]) /\ tokens[t].refresh_token = s
    THEN CHOOSE t \in Slots : Present(tokens[t]) /\ tokens[t].refresh_token = s
    ELSE 0

\* ------------------------------------------------------------- middleware
\* A set object handed out without copying: the caller's writes are writes
\* to the set it came from.
copy_Alias(s) == [elems |-> s, shared |-> TRUE]

\* set.copy(): a set object of the caller's own with the same elements; a
\* write to it is no write to the set it was copied from.
copy(s) == [elems |-> s, shared |-> FALSE]

\* AuthRegistry.get_exempt_paths: a copy of the set
get_exempt_paths == copy(exempt_paths)

\* The loop of _is_path_exempt over the set it obtained.
ExemptIn(paths, path) ==
    \E exempt_path \in paths :
        path = exempt_path \/ StartsWith(path, exempt_path)

\* The exemption test by equality alone, without the prefix test.
IsPathExempt_ExactOnly(path) ==
    \E exempt_path \in get_exempt_paths.elems : path = exempt_path

\* UnifiedAuthMiddleware._is_path_exempt
IsPathExempt(path) == ExemptIn(get_exempt_paths.elems, path)

\* request.url.path.startswith("/admin")
IsAdminPath(path) == StartsWith(path, <<"/admin">>)

\* The session step taking the session's identifier for the user when the
\* lookup raises.
GetUserFromSession_FailOpen(session, hazard) ==
    LET user_id == IF session.user_id # None THEN session.user_id
                   ELSE session.admin_user_id
    IN  IF user_id = None THEN [user |-> None, opened |-> 0, error |-> FALSE]
        ELSE IF hazard = "session" THEN [user |-> user_id, opened |-> 1, error |-> TRUE]
        ELSE [user |-> QueryActiveUser(user_id), opened |-> 1, error |-> FALSE]

\* UnifiedAuthMiddleware._get_user_from_session: the user, the handles it
\* opened, and whether the lookup raised.
GetUserFromSession(session, hazard) ==
    LET user_id == IF session.user_id # None THEN session.user_id
                   ELSE session.admin_user_id
    IN  IF user_id = None THEN [user |-> None, opened |-> 0, error |-> FALSE]
        ELSE IF hazard = "session" THEN [user |-> None, opened |-> 1, error |-> TRUE]
        ELSE [user |-> QueryActiveUser(user_id), opened |-> 1, error |-> FALSE]

\* A method that closes its handle where it returns normally, and not when
\* it leaves through its except clause.
finally_close_NotOnExcept(opened, exit) ==
    IF exit = "except" THEN 0 ELSE opened

\* finally: db.close() of a method that opened `opened` handles and is left
\* by a return or through its except clause: the handles it closes.
finally_close(opened, exit) == opened

\* await call_next(request) outside any try: the handler's response, or its
\* exception, which propagates out of dispatch. The methods that opened
\* handles have returned by then.
CallNext(user, hazard, opened, closed, sess_read, hdr_read, looked, err, sess, toks, branch) ==
    IF hazard = "handler"
    THEN Outcome("raised", 500, "handler exception", user, TRUE, opened, closed,
                 sess_read, hdr_read, looked, err, sess, toks, branch)
    ELSE Outcome("handler", 200, "handler response", user, TRUE, opened, closed,
                 sess_read, hdr_read, looked, err, sess, toks, branch)

\* UnifiedAuthMiddleware._handle_admin_auth; opened0, closed0 and err0 are
\* what the session step left. call_next runs inside the try, so an
\* exception of the handler ends in the except clause too.
HandleAdminAuth(session, hazard, opened0, closed0, err0) ==
    LET admin_user_id == session.admin_user_id
        Redirect(user, called, opened, closed, err, sess) ==
            Outcome("redirect", 302, "/admin/login", user, called, opened, closed,
                    TRUE, FALSE, FALSE, err, sess, tokens, "admin")
    IN  IF admin_user_id = None
        THEN Redirect(None, FALSE, opened0, closed0, err0, session)
        ELSE IF hazard = "admin"
        THEN Redirect(None, FALSE, opened0 + 1,
                      closed0 + finally_close(1, "except"), TRUE, session)
        ELSE LET user == QueryActiveUser(admin_user_id) IN
             IF user = None
             THEN Redirect(None, FALSE, opened0 + 1,
                           closed0 + finally_close(1, "return"), err0,
                           [session EXCEPT !.admin_user_id = None])
             ELSE IF hazard = "handler"
             THEN Redirect(user, TRUE, opened0 + 1,
                           closed0 + finally_close(1, "except"), err0, session)
             ELSE Outcome("handler", 200, "handler response", user, TRUE,
                          opened0 + 1, closed0 + finally_close(1, "return"),
                          TRUE, FALSE, FALSE, err0, session, tokens, "admin")

\* What _validate_api_token returns: a user, or the JSONResponse (user None),
\* with the handles opened, whether the token was looked up, whether a store
\* operation raised, and the tokens table as the method leaves it.
ApiResult(user, status, detail, opened, looked, err, toks) ==
    [ user |-> user, status |-> status, detail |-> detail,
      opened |-> opened, looked |-> looked, error |-> err, toks |-> toks ]

\* The checks on the token found, with the active check moved before the
\* expiry check.
CheckTokenEntry_ActiveFirst(slot, hazard, t) ==
    LET token_entry == tokens[slot]
        Json(status, detail, err, toks) ==
            ApiResult(None, status, detail, 1, TRUE, err, toks)
    IN  IF ~token_entry.is_active
        THEN Json(401, "Token is inactive", FALSE, tokens)
        ELSE IF t > token_entry.access_expires_at
        THEN IF hazard = "commit"
             THEN Json(500, "Authentication error", TRUE, tokens)
             ELSE Json(401, "Access token has expired", FALSE,
                       [tokens EXCEPT ![slot].is_active = FALSE])
        ELSE IF hazard = "user"
        THEN Json(500, "Authentication error", TRUE, tokens)
        ELSE LET user == QueryActiveUser(token_entry.user_id) IN
             IF user = None
             THEN Json(401, "User not found or inactive", FALSE, tokens)
             ELSE ApiResult(user, 200, "", 1, TRUE, FALSE, tokens)

\* The checks on the token found, without the write of is_active on expiry.
CheckTokenEntry_NoDeactivate(slot, hazard, t) ==
    LET token_entry == tokens[slot]
        Json(status, detail, err, toks) ==
            ApiResult(None, status, detail, 1, TRUE, err, toks)
    IN  IF t > token_entry.access_expires_at
        THEN Json(401, "Access token has expired", FALSE, tokens)
        ELSE IF ~token_entry.is_active
        THEN Json(401, "Token is inactive", FALSE, tokens)
        ELSE IF hazard = "user"
        THEN Json(500, "Authentication error", TRUE, tokens)
        ELSE LET user == QueryActiveUser(token_entry.user_id) IN
             IF user = None
             THEN Json(401, "User not found or inactive", FALSE, tokens)
             ELSE ApiResult(user, 200, "", 1, TRUE, FALSE, tokens)

\* UnifiedAuthMiddleware._validate_api_token from the expiry check on, for
\* the token_entry found in a slot, at now = t. A commit that raises leaves
\* the write of is_active uncommitted.
CheckTokenEntry(slot, hazard, t) ==
    LET token_entry == tokens[slot]
        Json(status, detail, err, toks) ==
            ApiResult(None, status, detail, 1, TRUE, err, toks)
    IN  IF t > token_entry.access_expires_at
        THEN IF token_entry.is_active
             THEN IF hazard = "commit"
                  THEN Json(500, "Authentication error", TRUE, tokens)
                  ELSE Json(401, "Access token has expired", FALSE,
                            [tokens EXCEPT ![slot].is_active = FALSE])
             ELSE Json(401, "Access token has expired", FALSE, tokens)
        ELSE IF ~token_entry.is_active
        THEN Json(401, "Token is inactive", FALSE, tokens)
        ELSE IF hazard = "user"
        THEN Json(500, "Authentication error", TRUE, tokens)
        ELSE LET user == QueryActiveUser(token_entry.user_id) IN
             IF user = None
             THEN Json(401, "User not found or inactive", FALSE, tokens)
             ELSE ApiResult(user, 200, "", 1, TRUE, FALSE, tokens)

\* _validate_api_token without the test of the header's scheme prefix.
ValidateApiToken_NoFormatCheck(header, hazard, t) ==
    IF header = NoHeader
    THEN ApiResult(None, 401, "Authentication required", 0, FALSE, FALSE, tokens)
    ELSE IF hazard = "token"
    THEN ApiResult(None, 500, "Authentication error", 1, TRUE, TRUE, tokens)
    ELSE LET slot == QueryTokenByAccess(header.cred) IN
         IF slot = 0
         THEN ApiResult(None, 401, "Invalid or non-existent token", 1, TRUE, FALSE,
                        tokens)
         ELSE CheckTokenEntry(slot, hazard, t)

\* UnifiedAuthMiddleware._validate_api_token at utcnow() = t.
ValidateApiToken(header, hazard, t) ==
    LET auth_prefix == TOKEN_EXPIRE.AUTH_HEADER_TYPES[1] IN
    IF header = NoHeader
    THEN ApiResult(None, 401, "Authentication required", 0, FALSE, FALSE, tokens)
    ELSE IF ~(header.scheme = auth_prefix /\ header.sep = " ")
    THEN ApiResult(None, 401, "Invalid authentication format", 0, FALSE, FALSE, tokens)
    ELSE IF hazard = "token"
    THEN ApiResult(None, 500, "Authentication error", 1, TRUE, TRUE, tokens)
    ELSE LET slot == QueryTokenByAccess(header.cred) IN
         IF slot = 0
         THEN ApiResult(None, 401, "Invalid or non-existent token", 1, TRUE, FALSE,
                        tokens)
         ELSE CheckTokenEntry(slot, hazard, t)

\* UnifiedAuthMiddleware._handle_api_auth, entered with request.state.user =
\* state_user.
HandleApiAuth(state_user, session, header, hazard, opened0, closed0, err0, t) ==
    IF state_user # None
    THEN CallNext(state_user, hazard, opened0, closed0, TRUE, FALSE, FALSE, err0,
                  session, tokens, "api")
    ELSE LET v == ValidateApiToken(header, hazard, t)
             closed == closed0 + finally_close(v.opened,
                                               IF v.error THEN "except" ELSE "return")
         IN  IF v.user = None
             THEN Outcome("json", v.status, v.detail, None, FALSE, opened0 + v.opened,
                          closed, TRUE, TRUE, v.looked, err0 \/ v.error,
                          session, v.toks, "api")
             ELSE CallNext(v.user, hazard, opened0 + v.opened, closed, TRUE, TRUE,
                           v.looked, err0 \/ v.error, session, v.toks, "api")

\* dispatch with the path-specific branching before the session step.
dispatch_BranchFirst(path, session, header, hazard, t) ==
    IF IsPathExempt(path)
    THEN CallNext(None, hazard, 0, 0, FALSE, FALSE, FALSE, FALSE, session, tokens,
                  "exempt")
    ELSE IF IsAdminPath(path)
    THEN HandleAdminAuth(session, hazard, 0, 0, FALSE)
    ELSE HandleApiAuth(None, session, header, hazard, 0, 0, FALSE, t)

\* UnifiedAuthMiddleware.dispatch
dispatch(path, session, header, hazard, t) ==
    IF IsPathExempt(path)
    THEN CallNext(None, hazard, 0, 0, FALSE, FALSE, FALSE, FALSE, session, tokens,
                  "exempt")
    ELSE LET s == GetUserFromSession(session, hazard)
             closed == finally_close(s.opened, IF s.error THEN "except" ELSE "return")
         IN  IF s.user # None
             THEN CallNext(s.user, hazard, s.opened, closed, TRUE, FALSE, FALSE,
                           s.error, session, tokens, "session")
             ELSE IF IsAdminPath(path)
             THEN HandleAdminAuth(session, hazard, s.opened, closed, s.error)
             ELSE HandleApiAuth(None, session, header, hazard, s.opened, closed,
                                s.error, t)

\* One request through the middleware.
Dispatch ==
    /\ Idle
    /\ \E r \in Requests, hazard \in Hazards :
         LET out == dispatch(r.path, r.session, r.header, hazard, now) IN
         /\ resp' = [ path |-> r.path, session |-> r.session, header |-> r.header,
                      registry |-> exempt_paths, at |-> now, before |-> tokens,
                      out |-> out ]
         /\ tokens' = out.tokens_after
    /\ UNCHANGED <<now, nextStr, exempt_paths, xres, rres, pres, managerVars, registered, callerVars, requestVars>>

\* _validate_api_token called with the access string of the token of a slot
\* in the Authorization header.
TokenApiValidate(slot) ==
    /\ Idle
    /\ Present(tokens[slot])
    /\ LET v == ValidateApiToken(Header("JWT", " ", tokens[slot].access_token),
                                 "none", now)
       IN  /\ tokens' = v.toks
           /\ rres' = Call("validate_api_token", slot, tokens[slot], v.toks[slot],
                           now, now, IF v.user # None THEN "user" ELSE v.detail)
    /\ UNCHANGED <<now, nextStr, exempt_paths, resp, xres, pres, managerVars, registered, callerVars, requestVars>>

\* -------------------------------------------------------- exchange route
\* user_access_token: GET /api/auth/access/token/?refresh_token=...; row is
\* the Token row the query found, as it was when the route ran.
user_access_token(refresh_token) ==
    LET slot == QueryTokenByRefresh(refresh_token) IN
    IF slot = 0
    THEN [ refresh_token |-> refresh_token, status |-> 404,
           detail |-> "Refresh token not found", access_token |-> 0,
           slot |-> 0, row |-> NoToken, at |-> now ]
    ELSE [ refresh_token |-> refresh_token, status |-> 200, detail |-> "",
           access_token |-> tokens[slot].access_token, slot |-> slot,
           row |-> tokens[slot], at |-> now ]

Exchange ==
    /\ Idle
    /\ \E refresh_token \in Creds : xres' = user_access_token(refresh_token)
    /\ UNCHANGED <<now, tokens, nextStr, exempt_paths, resp, rres, pres, managerVars, registered, callerVars, requestVars>>

\* ------------------------------------------------------ admin interface
\* TokenAdmin, the edit form of a Token row: an administrator revokes the
\* token by clearing is_active.
TokenAdminRevoke(slot) ==
    /\ Idle
    /\ Present(tokens[slot])
    /\ tokens[slot].is_active
    /\ tokens' = [tokens EXCEPT ![slot].is_active = FALSE]
    /\ UNCHANGED <<now, nextStr, exempt_paths, resp, xres, rres, pres, managerVars, registered, callerVars, requestVars>>

\* ------------------------------------------------------------- registry
\* A registration that writes the class-body set anew with the one path
\* added, dropping the paths registered before.
register_exempt_path_Replace(path) == BaselineExempt \cup {path}

\* AuthRegistry.register_exempt_path
register_exempt_path(path) == exempt_paths \cup {path}

\* One call of register_exempt_path, from the first statement to the return.
RegisterPath(path) ==
    /\ Idle
    /\ exempt_paths' = register_exempt_path(path)
    /\ registered' = registered \cup {path}
    /\ UNCHANGED <<now, tokens, nextStr, resp, xres, rres, pres, managerVars, callerVars, requestVars>>

\* A route of the application registers its path.
Register == \E path \in RegistrablePaths : RegisterPath(path)

\* ------------------------------------------------------ permission model
\* A User row as the permission checks read it; exists = FALSE is the None
\* of request.state.user.
UserRow(exists, active, superuser, admin, staffuser, permissions) ==
    [ exists |-> exists, is_active |-> active, is_superuser |-> superuser,
      is_admin |-> admin, is_staffuser |-> staffuser, permissions |-> permissions ]

NoUser == UserRow(FALSE, FALSE, FALSE, FALSE, FALSE, {})

PermNames == 1..MaxPerms

UserRows ==
    { UserRow(TRUE, a, su, ad, st, ps) :
        a \in BOOLEAN, su \in BOOLEAN, ad \in BOOLEAN, st \in BOOLEAN,
        ps \in SUBSET PermNames }

\* The values of request.state.user
StateUsers == UserRows \cup {NoUser}

\* Lists of permission names, as a decorator or HasPermission is given them
PermLists == UNION { [1..n -> PermNames] : n \in 0..MaxReq }

\* class AccessLevel
AccessLevels == {"public", "authenticated", "staff", "admin", "superuser"}

\* What a route wrapped by a decorator answers: the handler's response, a
\* redirect, or an HTTPException with its status and detail; listed is the
\* list of permission names the detail carries.
Response(kind, status, detail, listed) ==
    [ kind |-> kind, status |-> status, error |-> "", detail |-> detail,
      listed |-> listed ]

HandlerResponse == Response("handler", 200, "handler response", <<>>)

\* requires_permission, lines 61-64: the list the wrapper checks. A
\* permission_name of 0 is None.
permission_list(permission_name, permissions) ==
    IF permission_name # 0 /\ permissions = <<>>
    THEN <<permission_name>>
    ELSE permissions

\* check_user_permissions without the superuser bypass.
check_user_permissions_NoBypass(user, required_permissions) ==
    IF required_permissions = <<>> THEN TRUE
    ELSE \A i \in DOMAIN required_permissions :
             required_permissions[i] \in user.permissions

\* check_user_permissions
check_user_permissions(user, required_permissions) ==
    IF required_permissions = <<>> THEN TRUE
    ELSE IF user.is_superuser THEN TRUE
    ELSE \A i \in DOMAIN required_permissions :
             required_permissions[i] \in user.permissions

\* The answer to a request without a user, as an API route would give it on
\* every path.
no_user_response_Always401(request) ==
    Response("http_exception", 401, "Authentication required", <<>>)

\* requires_permission.wrapper, lines 98-104: the answer to a request
\* without a user.
no_user_response(request) ==
    IF request = "admin"
    THEN Response("redirect", 302, "/admin/login", <<>>)
    ELSE Response("http_exception", 401, "Authentication required", <<>>)

\* The access-level test with the admin level closed to superusers.
access_level_denial_AdminStrict(access_level, user) ==
    IF access_level = "superuser" /\ ~user.is_superuser
    THEN "Superuser access required"
    ELSE IF access_level = "admin" /\ ~user.is_admin
    THEN "Admin access required"
    ELSE IF access_level = "staff"
              /\ ~(user.is_staffuser \/ user.is_admin \/ user.is_superuser)
    THEN "Staff access required"
    ELSE ""

\* requires_permission.wrapper, lines 106-114: the detail of the 403 the
\* access level raises for a user, "" when it raises none.
access_level_denial(access_level, user) ==
    IF access_level = "superuser" /\ ~user.is_superuser
    THEN "Superuser access required"
    ELSE IF access_level = "admin" /\ ~(user.is_admin \/ user.is_superuser)
    THEN "Admin access required"
    ELSE IF access_level = "staff"
              /\ ~(user.is_staffuser \/ user.is_admin \/ user.is_superuser)
    THEN "Staff access required"
    ELSE ""

\* requires_permission.wrapper; request is "none" when no Request object is
\* among the arguments, else the kind of path of the request.
requires_permission(permission_name, access_level, permissions, request, user) ==
    LET plist == permission_list(permission_name, permissions) IN
    IF request = "none"
    THEN Response("http_exception", 500, "Request object not found", <<>>)
    ELSE IF access_level = "public" THEN HandlerResponse
    ELSE IF ~user.exists THEN no_user_response(request)
    ELSE IF access_level_denial(access_level, user) # ""
    THEN Response("http_exception", 403, access_level_denial(access_level, user), <<>>)
    ELSE IF plist # <<>>
    THEN IF user.is_superuser THEN HandlerResponse
         ELSE IF ~check_user_permissions(user, plist)
         THEN Response("http_exception", 403, "Missing required permissions", plist)
         ELSE HandlerResponse
    ELSE HandlerResponse

\* --------------------------------------------------- permission classes
\* A permission object: its class, the required_permissions of a
\* HasPermission, the permission_classes of a LogicalOR or LogicalAND.
Perm(cls, required_permissions, permission_classes) ==
    [ cls |-> cls, required_permissions |-> required_permissions,
      permission_classes |-> permission_classes ]

\* PermissionDenied.STATUS_CODES
STATUS_CODES ==
    [ authentication_required |-> 401, admin_required |-> 403,
      superuser_required |-> 403, staff_required |-> 403,
      permission_missing |-> 403, ownership_required |-> 403,
      access_denied |-> 403 ]

\* A check returns True (granted) or raises PermissionDenied(reason, detail,
\* missing_permissions); detail "" is the default message of the reason.
Granted ==
    [ granted |-> TRUE, reason |-> "", status |-> 0, detail |-> "", missing |-> <<>> ]

PermissionDenied(reason, detail, missing_permissions) ==
    [ granted |-> FALSE, reason |-> reason, status |-> STATUS_CODES[reason],
      detail |-> detail, missing |-> missing_permissions ]

\* PermissionDenied.to_http_exception
to_http_exception(e) ==
    [ Response("http_exception", e.status, e.detail, e.missing)
        EXCEPT !.error = e.reason ]

\* The list comprehension of HasPermission.has_permission: the required
\* permissions the user lacks, in the order required.
RECURSIVE missing_permissions(_, _)
missing_permissions(required_permissions, names) ==
    IF required_permissions = <<>> THEN <<>>
    ELSE LET rest == missing_permissions(Tail(required_permissions), names) IN
         IF Head(required_permissions) \notin names
         THEN <<Head(required_permissions)>> \o rest
         ELSE rest

RECURSIVE has_permission(_, _)
RECURSIVE has_object_permission(_, _, _, _)
RECURSIVE OrLoop(_, _, _, _, _, _)
RECURSIVE AndLoop(_, _, _, _, _)

\* One call of a branch: has_permission, or has_object_permission when
\* object is TRUE.
Branch(permission, user, method, obj, object) ==
    IF object THEN has_object_permission(permission, user, method, obj)
    ELSE has_permission(permission, user)

\* LogicalOR deciding by its first branch alone.
OrLoop_FirstOnly(rest, errors, user, method, obj, object) ==
    IF rest = <<>>
    THEN PermissionDenied("access_denied", "Access denied. None satisfied.", <<>>)
    ELSE Branch(Head(rest), user, method, obj, object)

\* The loop of LogicalOR over the branches left, with the errors collected.
OrLoop(rest, errors, user, method, obj, object) ==
    IF rest = <<>>
    THEN IF errors # <<>> THEN errors[1]
         ELSE PermissionDenied("access_denied",
                               IF object THEN "Object access denied. None satisfied."
                               ELSE "Access denied. None satisfied.", <<>>)
    ELSE LET r == Branch(Head(rest), user, method, obj, object) IN
         IF r.granted THEN Granted
         ELSE OrLoop(Tail(rest), Append(errors, r), user, method, obj, object)

\* LogicalAND running every branch and raising the last denial.
AndLoop_LastDenial(rest, user, method, obj, object) ==
    IF rest = <<>> THEN Granted
    ELSE LET r == Branch(Head(rest), user, method, obj, object)
             later == AndLoop(Tail(rest), user, method, obj, object)
         IN  IF ~later.granted THEN later ELSE r

\* The loop of LogicalAND over the branches left.
AndLoop(rest, user, method, obj, object) ==
    IF rest = <<>> THEN Granted
    ELSE LET r == Branch(Head(rest), user, method, obj, object) IN
         IF ~r.granted THEN r
         ELSE AndLoop(Tail(rest), user, method, obj, object)

\* has_permission of each class of middleware/permission.py
has_permission(permission, user) ==
    CASE permission.cls = "IsAuthenticated" ->
           IF ~user.exists \/ ~user.is_active
           THEN PermissionDenied("authentication_required", "", <<>>)
           ELSE Granted
      [] permission.cls = "IsAdminUser" ->
           IF ~user.exists THEN PermissionDenied("authentication_required", "", <<>>)
           ELSE IF ~(user.is_admin \/ user.is_superuser)
           THEN PermissionDenied("admin_required", "", <<>>)
           ELSE Granted
      [] permission.cls = "IsSuperUser" ->
           IF ~user.exists THEN PermissionDenied("authentication_required", "", <<>>)
           ELSE IF ~user.is_superuser
           THEN PermissionDenied("superuser_required", "", <<>>)
           ELSE Granted
      [] permission.cls = "IsStaffUser" ->
           IF ~user.exists THEN PermissionDenied("authentication_required", "", <<>>)
           ELSE IF ~(user.is_staffuser \/ user.is_admin \/ user.is_superuser)
           THEN PermissionDenied("staff_required", "", <<>>)
           ELSE Granted
      [] permission.cls = "DenyAll" -> PermissionDenied("access_denied", "", <<>>)
      [] permission.cls = "HasPermission" ->
           IF ~user.exists THEN PermissionDenied("authentication_required", "", <<>>)
           ELSE IF user.is_superuser THEN Granted
           ELSE LET missing == missing_permissions(permission.required_permissions,
                                                   user.permissions)
                IN  IF missing # <<>>
                    THEN PermissionDenied("permission_missing",
                                          "Missing required permissions", missing)
                    ELSE Granted
      [] permission.cls = "LogicalOR" ->
           OrLoop(permission.permission_classes, <<>>, user, "", "none", FALSE)
      [] permission.cls = "LogicalAND" ->
           AndLoop(permission.permission_classes, user, "", "none", FALSE)
      [] OTHER -> Granted

\* has_object_permission of each class; obj is "own" when its owner field
\* equals user.id, "other" when it does not.
has_object_permission(permission, user, method, obj) ==
    CASE permission.cls = "IsOwner" ->
           IF ~user.exists THEN PermissionDenied("authentication_required", "", <<>>)
           ELSE IF user.is_superuser THEN Granted
           ELSE IF obj # "own"
           THEN PermissionDenied("ownership_required", "no permission to access", <<>>)
           ELSE Granted
      [] permission.cls = "IsOwnerOrReadOnly" ->
           IF method \in {"GET", "HEAD", "OPTIONS"} THEN Granted
           ELSE IF ~user.exists
           THEN PermissionDenied("authentication_required", "", <<>>)
           ELSE IF user.is_superuser THEN Granted
           ELSE IF obj # "own"
           THEN PermissionDenied("ownership_required", "no permission to modify", <<>>)
           ELSE Granted
      [] permission.cls = "LogicalOR" ->
           OrLoop(permission.permission_classes, <<>>, user, method, obj, TRUE)
      [] permission.cls = "LogicalAND" ->
           AndLoop(permission.permission_classes, user, method, obj, TRUE)
      [] OTHER -> Granted

\* permission_required.wrapper; request is "none" when no Request object is
\* among the arguments, else its method; obj is "none" when no keyword
\* argument is taken for the object.
RECURSIVE CheckLoop(_, _, _, _, _)
CheckLoop(rest, user, method, obj, object) ==
    IF rest = <<>> THEN Granted
    ELSE LET r == Branch(Head(rest), user, method, obj, object) IN
         IF ~r.granted THEN r
         ELSE CheckLoop(Tail(rest), user, method, obj, object)

permission_required(permission_classes, check_object, request, user, obj) ==
    IF request = "none"
    THEN Response("http_exception", 500, "Request object not found", <<>>)
    ELSE LET r1 == CheckLoop(permission_classes, user, request, obj, FALSE) IN
         IF ~r1.granted THEN to_http_exception(r1)
         ELSE IF check_object /\ obj # "none"
         THEN LET r2 == CheckLoop(permission_classes, user, request, obj, TRUE) IN
              IF ~r2.granted THEN to_http_exception(r2) ELSE HandlerResponse
         ELSE HandlerResponse

\* The permission objects of the model: every class without arguments,
\* HasPermission of every list, and the groups over a few of them, two of
\* which are groups themselves.
SimpleClasses ==
    { "IsAuthenticated", "IsAdminUser", "IsSuperUser", "IsStaffUser", "AllowAny",
      "DenyAll", "IsOwner", "IsOwnerOrReadOnly" }

Leaves ==
    { Perm(c, <<>>, <<>>) : c \in SimpleClasses }
    \cup { Perm("HasPermission", l, <<>>) : l \in PermLists }

GroupKids ==
    { Perm(c, <<>>, <<>>) : c \in SimpleClasses }
    \cup { Perm("HasPermission", <<1>>, <<>>),
           Perm("LogicalOR", <<>>,
                <<Perm("DenyAll", <<>>, <<>>), Perm("IsAdminUser", <<>>, <<>>)>>),
           Perm("LogicalAND", <<>>,
                <<Perm("IsAuthenticated", <<>>, <<>>), Perm("IsOwner", <<>>, <<>>)>>) }

Groups ==
    { Perm(g, <<>>, ks) :
        g \in {"LogicalOR", "LogicalAND"},
        ks \in UNION { [1..n -> GroupKids] : n \in 0..MaxKids } }

\* The lists given to permission_required
RequiredKids ==
    { Perm("IsAuthenticated", <<>>, <<>>), Perm("IsAdminUser", <<>>, <<>>),
      Perm("DenyAll", <<>>, <<>>), Perm("IsOwner", <<>>, <<>>),
      Perm("HasPermission", <<1>>, <<>>),
      Perm("LogicalOR", <<>>,
           <<Perm("IsSuperUser", <<>>, <<>>), Perm("IsOwner", <<>>, <<>>)>>) }

RequiredLists == UNION { [1..n -> RequiredKids] : n \in 0..MaxKids }

\* The record of a permission check: what was called, with which arguments,
\* and what came back.
NoCheck ==
    [ op |-> "none", permission_name |-> 0, access_level |-> "public",
      permissions |-> <<>>, request |-> "none", user |-> NoUser,
      out |-> Response("none", 0, "", <<>>), result |-> FALSE,
      permission |-> Perm("none", <<>>, <<>>), permission_classes |-> <<>>,
      check_object |-> FALSE, obj |-> "none", raised |-> Granted ]

\* A request reaches a route wrapped by requires_permission.
RequiresPermission ==
    /\ pres = NoCheck
    /\ \E permission_name \in {0} \cup PermNames, access_level \in AccessLevels,
          permissions \in PermLists, request \in {"none", "admin", "api"},
          user \in StateUsers :
         pres' = [ NoCheck EXCEPT
                     !.op = "requires_permission",
                     !.permission_name = permission_name,
                     !.access_level = access_level,
                     !.permissions = permissions,
                     !.request = request,
                     !.user = user,
                     !.out = requires_permission(permission_name, access_level,
                                                 permissions, request, user) ]
    /\ UNCHANGED <<now, tokens, nextStr, exempt_paths, resp, xres, rres, managerVars, registered, callerVars, requestVars>>

\* check_user_permissions is called for a user.
CheckUserPermissions ==
    /\ pres = NoCheck
    /\ \E user \in UserRows, required_permissions \in PermLists :
         pres' = [ NoCheck EXCEPT
                     !.op = "check_user_permissions",
                     !.permissions = required_permissions,
                     !.user = user,
                     !.result = check_user_permissions(user, required_permissions) ]
    /\ UNCHANGED <<now, tokens, nextStr, exempt_paths, resp, xres, rres, managerVars, registered, callerVars, requestVars>>

\* has_permission of a permission object is called for a user.
HasPermission ==
    /\ pres = NoCheck
    /\ \E permission \in Leaves \cup Groups, user \in StateUsers :
         pres' = [ NoCheck EXCEPT
                     !.op = "has_permission",
                     !.permission = permission,
                     !.user = user,
                     !.raised = has_permission(permission, user) ]
    /\ UNCHANGED <<now, tokens, nextStr, exempt_paths, resp, xres, rres, managerVars, registered, callerVars, requestVars>>

\* has_object_permission of a permission object is called for a user, a
\* request method and an object.
HasObjectPermission ==
    /\ pres = NoCheck
    /\ \E permission \in Leaves \cup Groups, user \in StateUsers,
          method \in {"GET", "POST"}, obj \in {"own", "other"} :
         pres' = [ NoCheck EXCEPT
                     !.op = "has_object_permission",
                     !.permission = permission,
                     !.user = user,
                     !.request = method,
                     !.obj = obj,
                     !.raised = has_object_permission(permission, user, method, obj) ]
    /\ UNCHANGED <<now, tokens, nextStr, exempt_paths, resp, xres, rres, managerVars, registered, callerVars, requestVars>>

\* A request reaches a route wrapped by permission_required.
PermissionRequired ==
    /\ pres = NoCheck
    /\ \E permission_classes \in RequiredLists, check_object \in BOOLEAN,
          request \in {"none", "POST"}, user \in StateUsers,
          obj \in {"none", "own", "other"} :
         pres' = [ NoCheck EXCEPT
                     !.op = "permission_required",
                     !.permission_classes = permission_classes,
                     !.check_object = check_object,
                     !.request = request,
                     !.user = user,
                     !.obj = obj,
                     !.out = permission_required(permission_classes, check_object,
                                                 request, user, obj) ]
    /\ UNCHANGED <<now, tokens, nextStr, exempt_paths, resp, xres, rres, managerVars, registered, callerVars, requestVars>>

\* The check returns to its caller.
PermReturn ==
    /\ pres # NoCheck
    /\ pres' = NoCheck
    /\ UNCHANGED <<now, tokens, nextStr, exempt_paths, resp, xres, rres, managerVars, registered, callerVars, requestVars>>

\* ---------------------------------------------------- PermissionManager
\* The ids a caller of PermissionManager passes: two users of the users
\* table and an id without a row.
ManagerIds == {"u1", "u2", "u0"}

\* permission in user.permissions
Contains(list, name) == \E i \in DOMAIN list : list[i] = name

\* list.remove: the list without the first occurrence of the name.
RECURSIVE Remove(_, _)
Remove(list, name) ==
    IF list = <<>> THEN <<>>
    ELSE IF Head(list) = name THEN Tail(list)
    ELSE <<Head(list)>> \o Remove(Tail(list), name)

\* db.flush() of a new Permission row: permissions.user_id is declared
\* nullable=False, so the INSERT of a row without user_id fails.
flush_permission(rows, name, user_id) ==
    IF user_id = None
    THEN [error |-> "IntegrityError", rows |-> rows]
    ELSE [error |-> "", rows |-> rows \cup {name}]

\* What a PermissionManager method leaves: its return value (or the
\* exception it raised), the list it returned, and the two tables.
ManagerResult(result, listed, rows, held) ==
    [ result |-> result, listed |-> listed, permission_rows |-> rows,
      user_permissions |-> held ]

\* PermissionManager.assign_permission; Permission(name=permission_name)
\* is built without a user_id.
assign_permission(user_id, permission_name) ==
    IF user_id \notin Users
    THEN ManagerResult("False", <<>>, permission_rows, user_permissions)
    ELSE LET f == IF permission_name \in permission_rows
                  THEN [error |-> "", rows |-> permission_rows]
                  ELSE flush_permission(permission_rows, permission_name, None)
         IN  IF f.error # ""
             THEN ManagerResult(f.error, <<>>, permission_rows, user_permissions)
             ELSE IF Contains(user_permissions[user_id], permission_name)
             THEN ManagerResult("False", <<>>, f.rows, user_permissions)
             ELSE ManagerResult("True", <<>>, f.rows,
                                [user_permissions EXCEPT ![user_id] =
                                   Append(@, permission_name)])

\* PermissionManager.revoke_permission
revoke_permission(user_id, permission_name) ==
    IF user_id \notin Users
    THEN ManagerResult("False", <<>>, permission_rows, user_permissions)
    ELSE IF permission_name \notin permission_rows
    THEN ManagerResult("False", <<>>, permission_rows, user_permissions)
    ELSE IF Contains(user_permissions[user_id], permission_name)
    THEN ManagerResult("True", <<>>, permission_rows,
                       [user_permissions EXCEPT ![user_id] =
                          Remove(@, permission_name)])
    ELSE ManagerResult("False", <<>>, permission_rows, user_permissions)

\* PermissionManager.get_user_permissions
get_user_permissions(user_id) ==
    IF user_id \notin Users
    THEN ManagerResult("list", <<>>, permission_rows, user_permissions)
    ELSE ManagerResult("list", user_permissions[user_id], permission_rows,
                       user_permissions)

\* The record of a PermissionManager call: the method, its arguments, the
\* two tables before it, and what it returned.
NoManagerCall ==
    [ op |-> "none", user_id |-> None, permission_name |-> 0,
      rows_before |-> {}, held_before |-> <<>>, result |-> "", listed |-> <<>> ]

ManagerCall(op, user_id, permission_name, r) ==
    [ op |-> op, user_id |-> user_id, permission_name |-> permission_name,
      rows_before |-> permission_rows,
      held_before |-> IF user_id \in Users THEN user_permissions[user_id] ELSE <<>>,
      result |-> r.result, listed |-> r.listed ]

AssignPermission ==
    /\ mres = NoManagerCall
    /\ \E user_id \in ManagerIds, permission_name \in PermNames :
         LET r == assign_permission(user_id, permission_name) IN
         /\ permission_rows' = r.permission_rows
         /\ user_permissions' = r.user_permissions
         /\ mres' = ManagerCall("assign_permission", user_id, permission_name, r)
    /\ UNCHANGED <<now, tokens, nextStr, exempt_paths, resp, xres, rres, pres, registered, callerVars, requestVars>>

RevokePermission ==
    /\ mres = NoManagerCall
    /\ \E user_id \in ManagerIds, permission_name \in PermNames :
         LET r == revoke_permission(user_id, permission_name) IN
         /\ permission_rows' = r.permission_rows
         /\ user_permissions' = r.user_permissions
         /\ mres' = ManagerCall("revoke_permission", user_id, permission_name, r)
    /\ UNCHANGED <<now, tokens, nextStr, exempt_paths, resp, xres, rres, pres, registered, callerVars, requestVars>>

GetUserPermissions ==
    /\ mres = NoManagerCall
    /\ \E user_id \in ManagerIds :
         LET r == get_user_permissions(user_id) IN
         mres' = ManagerCall("get_user_permissions", user_id, 0, r)
    /\ UNCHANGED <<now, tokens, nextStr, exempt_paths, resp, xres, rres, pres, permission_rows, user_permissions, registered, callerVars, requestVars>>

\* PermissionAdmin, the create form of a Permission row: the row is saved
\* with a user chosen for its user_id.
PermissionAdminCreate ==
    /\ mres = NoManagerCall
    /\ \E name \in PermNames, user_id \in Users :
         /\ name \notin permission_rows
         /\ permission_rows' = flush_permission(permission_rows, name, user_id).rows
    /\ UNCHANGED <<now, tokens, nextStr, exempt_paths, resp, xres, rres, pres, user_permissions, mres, registered, callerVars, requestVars>>

\* The method returns to its caller.
ManagerReturn ==
    /\ mres # NoManagerCall
    /\ mres' = NoManagerCall
    /\ UNCHANGED <<now, tokens, nextStr, exempt_paths, resp, xres, rres, pres, permission_rows, user_permissions, registered, callerVars, requestVars>>

\* ------------------------------------------------ callers of the registry
\* The threads that call into AuthRegistry at the same time.
Callers == {"c1", "c2"}

\* The prefixes the callers register, one a prefix of the other.
RegistryPrefixes == { <<"/shop">>, <<"/shop", "/orders">> }

\* The paths looked up: under the first prefix without a separator
\* ("/shopping"), under the second, under a baseline prefix, under none.
LookupPaths ==
    { <<"/shop", "ping">>,
      <<"/shop", "/orders", "/7">>,
      <<"/static", "/x">>,
      <<"/cart">> }

\* One call of _is_path_exempt: the copy it obtained, the registry and the
\* completed registrations at that moment, and what it returned.
NoLookup ==
    [ stage |-> "idle", path |-> <<>>, copy |-> {}, registry |-> {},
      completed |-> {}, result |-> FALSE ]

\* _is_path_exempt, line 213: the call of get_exempt_paths().
LookupStart(c) ==
    /\ lookups[c].stage = "idle"
    /\ \E path \in LookupPaths :
         lookups' = [lookups EXCEPT ![c] =
                       [ stage |-> "copied", path |-> path,
                         copy |-> get_exempt_paths.elems,
                         registry |-> exempt_paths, completed |-> registered,
                         result |-> FALSE ]]
    /\ UNCHANGED <<now, tokens, nextStr, exempt_paths, resp, xres, rres, pres, managerVars, registered, returned, requestVars>>

\* _is_path_exempt, lines 213-216: the loop over the copy, and the return.
LookupLoop(c) ==
    /\ lookups[c].stage = "copied"
    /\ lookups' = [lookups EXCEPT ![c].stage = "done",
                                  ![c].result = ExemptIn(lookups[c].copy,
                                                         lookups[c].path)]
    /\ UNCHANGED <<now, tokens, nextStr, exempt_paths, resp, xres, rres, pres, managerVars, registered, returned, requestVars>>

\* The caller of _is_path_exempt goes on.
LookupReturn(c) ==
    /\ lookups[c].stage = "done"
    /\ lookups' = [lookups EXCEPT ![c] = NoLookup]
    /\ UNCHANGED <<now, tokens, nextStr, exempt_paths, resp, xres, rres, pres, managerVars, registered, returned, requestVars>>

\* The set object a caller of get_exempt_paths() holds.
NoReturned == [held |-> FALSE, elems |-> {}, shared |-> FALSE]

\* A caller obtains the exempt paths.
GetExemptPaths ==
    /\ ~returned.held
    /\ returned' = [ held |-> TRUE, elems |-> get_exempt_paths.elems,
                     shared |-> get_exempt_paths.shared ]
    /\ UNCHANGED <<now, tokens, nextStr, exempt_paths, resp, xres, rres, pres, managerVars, registered, lookups, requestVars>>

\* What the caller may do to the set it holds: clear(), discard() of a
\* baseline prefix, add() of a path.
Mutations(s) == { {}, s \ {<<"/static">>}, s \cup {<<"/cart">>} }

\* The caller changes the set it holds; a shared set object is the
\* registry's own.
MutateReturned ==
    /\ returned.held
    /\ \E m \in Mutations(returned.elems) :
         /\ m # returned.elems
         /\ returned' = [returned EXCEPT !.elems = m]
         /\ exempt_paths' = IF returned.shared THEN m ELSE exempt_paths
    /\ UNCHANGED <<now, tokens, nextStr, resp, xres, rres, pres, managerVars, registered, lookups, requestVars>>

\* The caller drops the set.
DropReturned ==
    /\ returned.held
    /\ returned' = NoReturned
    /\ UNCHANGED <<now, tokens, nextStr, exempt_paths, resp, xres, rres, pres, managerVars, registered, lookups, requestVars>>

\* ----------------------------------------------------- requests in flight
\* The tasks that handle requests at the same time.
Workers == {"w1", "w2"}

\* The requests in flight: an exempt path with a session; an API path with
\* the session of a user, with the first access string issued, and with
\* nothing; an admin path with the session AdminAuth.login leaves.
FlightRequests ==
    { [path |-> <<"/static", "/x">>, session |-> Session("u2", None, FALSE),
       header |-> NoHeader],
      [path |-> <<"/api/orders/">>, session |-> Session("u2", None, FALSE),
       header |-> NoHeader],
      [path |-> <<"/api/orders/">>, session |-> Session(None, None, FALSE),
       header |-> Header("JWT", " ", 1)],
      [path |-> <<"/api/orders/">>, session |-> Session(None, None, FALSE),
       header |-> NoHeader],
      [path |-> <<"/admin", "/x">>, session |-> Session(None, "u1", TRUE),
       header |-> NoHeader] }

\* A request in flight: how far dispatch got, the identity its own checks
\* resolved, and what its handler read in request.state.user.
NoFlight ==
    [ stage |-> "idle", path |-> <<>>, session |-> Session(None, None, FALSE),
      header |-> NoHeader, resolved |-> None, seen |-> None ]

\* An identity kept in one attribute of the middleware object, which every
\* request reads and writes.
set_state_user_Global(state, w, user) == [x \in DOMAIN state |-> user]

\* request.state.user = user, on the Request object of the worker's request
set_state_user(state, w, user) == [state EXCEPT ![w] = user]

\* dispatch, line 190: the request arrives and its identity is reset.
Begin(w) ==
    /\ inflight[w].stage = "idle"
    /\ \E r \in FlightRequests :
         inflight' = [inflight EXCEPT ![w] =
                        [ stage |-> "started", path |-> r.path,
                          session |-> r.session, header |-> r.header,
                          resolved |-> None, seen |-> None ]]
    /\ request_state' = set_state_user(request_state, w, None)
    /\ UNCHANGED <<now, tokens, nextStr, exempt_paths, resp, xres, rres, pres, managerVars, registered, callerVars>>

\* dispatch, lines 193-208, up to the await of call_next or the denial: the
\* checks run and the identity they resolve is attached.
Authenticate(w) ==
    /\ inflight[w].stage = "started"
    /\ LET out == dispatch(inflight[w].path, inflight[w].session,
                           inflight[w].header, "none", now)
       IN  /\ inflight' = [inflight EXCEPT
                             ![w].stage = IF out.handler_called THEN "forwarded"
                                          ELSE "answered",
                             ![w].resolved = out.user]
           /\ request_state' = IF out.user # None
                            THEN set_state_user(request_state, w, out.user)
                            ELSE request_state
           /\ tokens' = out.tokens_after
    /\ UNCHANGED <<now, nextStr, exempt_paths, resp, xres, rres, pres, managerVars, registered, callerVars>>

\* The downstream handler runs and reads request.state.user.
Handler(w) ==
    /\ inflight[w].stage = "forwarded"
    /\ inflight' = [inflight EXCEPT ![w].stage = "handled",
                                    ![w].seen = request_state[w]]
    /\ UNCHANGED <<now, tokens, nextStr, exempt_paths, resp, xres, rres, pres, managerVars, registered, callerVars, request_state>>

\* The response is returned; the execution context is free for the next
\* request, with whatever it holds.
Finish(w) ==
    /\ inflight[w].stage \in {"answered", "handled"}
    /\ inflight' = [inflight EXCEPT ![w] = NoFlight]
    /\ UNCHANGED <<now, tokens, nextStr, exempt_paths, resp, xres, rres, pres, managerVars, registered, callerVars, request_state>>

\* --------------------------------------------------------- specifications
Init ==
    /\ now = 0
    /\ tokens = [s \in Slots |-> NoToken]
    /\ nextStr = 1
    /\ exempt_paths = BaselineExempt
    /\ resp = NoRequest
    /\ xres = NoExchange
    /\ rres = NoCall
    /\ pres = NoCheck
    /\ permission_rows = {}
    /\ user_permissions = [u \in Users |-> <<>>]
    /\ mres = NoManagerCall
    /\ registered = {}
    /\ lookups = [c \in Callers |-> NoLookup]
    /\ returned = NoReturned
    /\ inflight = [w \in Workers |-> NoFlight]
    /\ request_state = [w \in Workers |-> None]

\* The application: requests through the middleware, the auth routes, the
\* registry and the clock.
Next ==
    \/ Tick
    \/ \E u \in Users : Login(u)
    \/ Dispatch
    \/ Exchange
    \/ Register
    \/ \E slot \in Slots : TokenAdminRevoke(slot)
    \/ Return

Spec == Init /\ [][Next]_vars

\* The Token class on its own: its constructor (through login), its methods
\* and the clock.
TokenNext ==
    \/ Tick
    \/ \E u \in Users : Login(u)
    \/ \E slot \in Slots : TokenRefresh(slot)
    \/ \E slot \in Slots : TokenDeactivate(slot)
    \/ \E slot \in Slots : TokenValidate(slot)
    \/ \E slot \in Slots : TokenReadExpiry(slot)
    \/ \E slot \in Slots : TokenApiValidate(slot)
    \/ Return

TokenSpec == Init /\ [][TokenNext]_vars

\* The permission checks on their own: the route decorators and the
\* permission classes, applied to every user row and argument of the model.
PermNext ==
    \/ RequiresPermission
    \/ CheckUserPermissions
    \/ HasPermission
    \/ HasObjectPermission
    \/ PermissionRequired
    \/ PermReturn

PermSpec == Init /\ [][PermNext]_vars

\* The PermissionManager on its own: its three methods and the creation of
\* Permission rows in the admin interface.
ManagerNext ==
    \/ AssignPermission
    \/ RevokePermission
    \/ GetUserPermissions
    \/ PermissionAdminCreate
    \/ ManagerReturn

ManagerSpec == Init /\ [][ManagerNext]_vars

\* The registry under concurrent callers: registrations, exemption lookups
\* in two steps, and callers that change the set get_exempt_paths gave them.
RegistryNext ==
    \/ \E path \in RegistryPrefixes : RegisterPath(path)
    \/ \E c \in Callers : LookupStart(c)
    \/ \E c \in Callers : LookupLoop(c)
    \/ \E c \in Callers : LookupReturn(c)
    \/ GetExemptPaths
    \/ MutateReturned
    \/ DropReturned

RegistrySpec == Init /\ [][RegistryNext]_vars

\* Requests handled concurrently: each is split at the points where dispatch
\* awaits, and logins change the store meanwhile.
RequestNext ==
    \/ \E u \in Users : Login(u)
    \/ \E w \in Workers : Begin(w)
    \/ \E w \in Workers : Authenticate(w)
    \/ \E w \in Workers : Handler(w)
    \/ \E w \in Workers : Finish(w)

RequestSpec == Init /\ [][RequestNext]_vars

\* ================================================================ claims
\* The request just handled, in the terms the claims use.
Handled == resp.out.kind # "none"

\* The path equals or starts with a prefix the registry held at the request.
WasExempt == \E e \in resp.registry : resp.path = e \/ StartsWith(resp.path, e)

\* The token row that carried the presented access string, or 0.
SlotOf(toks, c) ==
    IF \E t \in DOMAIN toks : Present(toks[t]) /\ toks[t].access_token = c
    THEN CHOOSE t \in DOMAIN toks : Present(toks[t]) /\ toks[t].access_token = c
    ELSE 0

Presented == SlotOf(resp.before, resp.header.cred)

\* C1: on a non-exempt path the handler runs only with a resolved user on
\* request.state.user, and every redirect or JSON response is produced
\* without the handler having run.
C1_HandlerOnlyAfterIdentity ==
    (Handled /\ ~WasExempt) =>
        /\ resp.out.handler_called => resp.out.user \in Users
        /\ resp.out.kind \in {"redirect", "json"} => ~resp.out.handler_called

\* C2: a request on an exempt path goes to the handler with no store handle
\* opened, the session and the Authorization header unread, and no identity
\* attached, whatever credentials it carries.
C2_ExemptPassesUntouched ==
    (Handled /\ WasExempt) =>
        /\ resp.out.handler_called
        /\ resp.out.user = None
        /\ resp.out.db_opened = 0
        /\ ~resp.out.session_read
        /\ ~resp.out.header_read
        /\ ~resp.out.token_lookup
        /\ resp.out.tokens_after = resp.before
        /\ resp.out.session_after = resp.session

\* An exempt request under a prefix (not equal to it) that carried the
\* session of a logged-in administrator was handled.
C2_Witness ==
    /\ Handled /\ WasExempt
    /\ resp.path = <<"/static", "/x">>
    /\ resp.session = Session(None, "u1", TRUE)
    /\ resp.out.kind = "handler"

\* C3: in the admin branch the handler runs only with both admin keys in the
\* session and an active superuser under admin_user_id.
C3_AdminNeedsSuperuserSession ==
    (Handled /\ ~WasExempt /\ IsAdminPath(resp.path) /\ resp.out.branch = "admin"
       /\ resp.out.handler_called) =>
        /\ resp.session.admin_token
        /\ resp.session.admin_user_id \in Users
        /\ is_active(resp.session.admin_user_id)
        /\ is_superuser(resp.session.admin_user_id)

\* The answer the token branch gives for the presented access string, with
\* the checks in one of two orders; "" is success.
Expected(activeFirst) ==
    IF Presented = 0 THEN "Invalid or non-existent token"
    ELSE LET tok == resp.before[Presented]
             expired == resp.at > tok.access_expires_at
             rest == IF ~is_active(tok.user_id) THEN "User not found or inactive"
                     ELSE ""
         IN  IF activeFirst
             THEN IF ~tok.is_active THEN "Token is inactive"
                  ELSE IF expired THEN "Access token has expired" ELSE rest
             ELSE IF expired THEN "Access token has expired"
                  ELSE IF ~tok.is_active THEN "Token is inactive" ELSE rest

\* The token branch looked the presented string up and no store operation
\* raised.
TokenBranch == Handled /\ resp.out.token_lookup /\ ~resp.out.store_error

Answered(expected) ==
    IF expected = ""
    THEN /\ resp.out.handler_called
         /\ resp.out.user = resp.before[Presented].user_id
    ELSE /\ resp.out.kind = "json"
         /\ resp.out.status = 401
         /\ resp.out.detail = expected
         /\ resp.out.user = None
         /\ ~resp.out.handler_called

\* C4 as claimed: the checks run in the order found, active, access expiry,
\* user; the first failing check is reported, as a 401.
C4_OrderActiveBeforeExpiry == TokenBranch => Answered(Expected(TRUE))

\* C4 as amended: the checks run in the order found, access expiry, active,
\* user; the first failing check is reported, as a 401, and the user is
\* attached only when all pass.
C4_OrderExpiryBeforeActive == TokenBranch => Answered(Expected(FALSE))

\* A deactivated token past its access expiry was presented and denied as
\* expired.
C4_Witness ==
    /\ TokenBranch /\ Presented # 0
    /\ ~resp.before[Presented].is_active
    /\ resp.at > resp.before[Presented].access_expires_at
    /\ resp.out.detail = "Access token has expired"

\* The exchange just answered, in the terms the claims use.
Exchanged == xres.status # 0

\* C5: between access expiry and refresh expiry, validation of the access
\* string is denied as expired, and the exchange of the refresh string
\* succeeds and returns an access token different from the expired one.
C5_ExpiredThenRefreshed ==
    /\ (TokenBranch /\ Presented # 0
          /\ resp.before[Presented].is_active
          /\ resp.at > resp.before[Presented].access_expires_at
          /\ resp.at <= resp.before[Presented].refresh_expires_at) =>
            /\ resp.out.status = 401
            /\ resp.out.detail = "Access token has expired"
    /\ (Exchanged /\ xres.slot # 0
          /\ ~xres.row.is_active
          /\ xres.at > xres.row.access_expires_at
          /\ xres.at <= xres.row.refresh_expires_at) =>
            /\ xres.status = 200
            /\ xres.access_token # xres.row.access_token
            /\ tokens[xres.slot].access_token = xres.access_token

\* C6: the exchange denies an unknown refresh string as not found, denies a
\* record past its refresh expiry as expired, and otherwise rotates the
\* access token before returning it; no access token is returned for a
\* record past its refresh expiry.
C6_ExchangeDeniesOrRotates ==
    Exchanged =>
        IF xres.slot = 0
        THEN /\ xres.status # 200
             /\ xres.detail = "Refresh token not found"
             /\ xres.access_token = 0
        ELSE IF xres.at > xres.row.refresh_expires_at
        THEN /\ xres.status # 200
             /\ xres.access_token = 0
        ELSE /\ xres.status = 200
             /\ xres.access_token # xres.row.access_token
             /\ tokens[xres.slot].access_token = xres.access_token

Refreshed == rres.op = "refresh"
RefreshExpired == rres.t1 > rres.before.refresh_expires_at

\* C8: Token.refresh on a token past its refresh expiry raises the
\* refresh-expired ValueError and leaves access_token, access_expires_at and
\* refresh_expires_at as they were.
C8_ExpiredRefreshFails ==
    (Refreshed /\ RefreshExpired) =>
        /\ rres.result = "ValueError"
        /\ rres.after.access_token = rres.before.access_token
        /\ rres.after.access_expires_at = rres.before.access_expires_at
        /\ rres.after.refresh_expires_at = rres.before.refresh_expires_at
        /\ tokens[rres.slot] = rres.after

\* Token.refresh was called on an active token past its refresh expiry and
\* raised.
C8_Witness ==
    /\ Refreshed /\ RefreshExpired
    /\ rres.before.is_active
    /\ rres.result = "ValueError"

\* C9: Token.refresh on a token not past its refresh expiry returns without
\* error, with a different access string and a strictly later
\* access_expires_at.
C9_ValidRefreshRotates ==
    (Refreshed /\ ~RefreshExpired) =>
        /\ rres.result = "ok"
        /\ rres.after.access_token # rres.before.access_token
        /\ rres.after.access_expires_at > rres.before.access_expires_at

\* C10: a Token.refresh on a token not past its refresh expiry succeeds and
\* moves refresh_expires_at to now + REFRESH_TOKEN_LIFETIME exactly when the
\* remaining refresh lifetime is under the configured renewal threshold,
\* leaving it unchanged otherwise; refresh_expires_at never decreases.
C10_RenewalThresholdRule ==
    (Refreshed /\ ~RefreshExpired) =>
        /\ rres.after.refresh_expires_at >= rres.before.refresh_expires_at
        /\ rres.result = "ok"
        /\ HasKey(TOKEN_EXPIRE, "REFRESH_TOKEN_RENEWAL_THRESHOLD")
        /\ rres.after.refresh_expires_at =
             IF rres.before.refresh_expires_at - rres.t2
                  < TOKEN_EXPIRE["REFRESH_TOKEN_RENEWAL_THRESHOLD"]
             THEN rres.t2 + TOKEN_EXPIRE.REFRESH_TOKEN_LIFETIME
             ELSE rres.before.refresh_expires_at

\* C11: a token just created has access_expires_at < refresh_expires_at,
\* access_expires_at = creation time + ACCESS_TOKEN_LIFETIME and
\* refresh_expires_at = creation time + REFRESH_TOKEN_LIFETIME, the creation
\* time being the instant the constructor is entered.
C11_FreshTokenExpiries ==
    [][ \A s \in Slots :
          (~Present(tokens[s]) /\ Present(tokens'[s])) =>
              /\ tokens'[s].access_expires_at < tokens'[s].refresh_expires_at
              /\ tokens'[s].access_expires_at = now + ACCESS_TOKEN_LIFETIME
              /\ tokens'[s].refresh_expires_at = now + REFRESH_TOKEN_LIFETIME ]_vars

\* The user identifier _get_user_from_session takes from a session.
SessionId(session) ==
    IF session.user_id # None THEN session.user_id ELSE session.admin_user_id

\* What the session step did for a request whose session identifier names
\* an active user: that user attached, the handler run, the header unread.
SessionShortCircuit(u) ==
    /\ resp.out.user = u
    /\ resp.out.handler_called
    /\ resp.out.branch = "session"
    /\ ~resp.out.header_read
    /\ ~resp.out.token_lookup
    /\ resp.out.session_after = resp.session
    /\ resp.out.tokens_after = resp.before

\* C12 as claimed: when user_id or admin_user_id of the session names an
\* active user, that user is attached and the request forwarded by the
\* session step, before any branching on the path and with the header unread.
C12_EitherKeyShortCircuits ==
    (Handled /\ ~WasExempt /\ ~resp.out.store_error) =>
        \A u \in {resp.session.user_id, resp.session.admin_user_id} \ {None} :
            is_active(u) =>
                \E v \in {resp.session.user_id, resp.session.admin_user_id} \ {None} :
                    is_active(v) /\ SessionShortCircuit(v)

\* C12 as amended: when the session's user_id, or in its absence its
\* admin_user_id, names an active user, that user is attached and the request
\* forwarded by the session step, on admin and API paths alike, with the
\* header unread and neither admin_token nor is_superuser looked at.
C12_SessionShortCircuits ==
    (Handled /\ ~WasExempt /\ ~resp.out.store_error
       /\ SessionId(resp.session) # None /\ is_active(SessionId(resp.session))) =>
        SessionShortCircuit(SessionId(resp.session))

\* An active user who is no superuser, named by admin_user_id in a session
\* without admin_token, was attached and forwarded on an admin path.
C12_Witness ==
    /\ Handled /\ ~WasExempt
    /\ IsAdminPath(resp.path)
    /\ resp.session = Session(None, "u2", FALSE)
    /\ resp.out.user = "u2"
    /\ resp.out.kind = "handler"

\* C13: every failure of the admin branch is a 302 redirect to /admin/login
\* that leaves the session without its keys and the handler not invoked.
C13_AdminFailureClearsSession ==
    (Handled /\ resp.out.branch = "admin" /\ resp.out.kind # "handler") =>
        /\ resp.out.kind = "redirect"
        /\ resp.out.status = 302
        /\ resp.out.detail = "/admin/login"
        /\ resp.out.session_after = Session(None, None, FALSE)
        /\ ~resp.out.handler_called

\* The Authorization header is absent or does not start with the scheme
\* label and a space.
Malformed(header) ==
    header = NoHeader
    \/ ~(header.scheme = TOKEN_EXPIRE.AUTH_HEADER_TYPES[1] /\ header.sep = " ")

\* C14: on a non-exempt, non-admin path with no identity from the session,
\* an absent or malformed Authorization header is answered 401 with a JSON
\* detail, with no token lookup and the handler not invoked.
C14_MalformedHeaderDenied ==
    (Handled /\ ~WasExempt /\ ~IsAdminPath(resp.path)
       /\ (SessionId(resp.session) = None \/ ~is_active(SessionId(resp.session)))
       /\ Malformed(resp.header)) =>
        /\ resp.out.kind = "json"
        /\ resp.out.status = 401
        /\ resp.out.detail \in {"Authentication required", "Invalid authentication format"}
        /\ ~resp.out.token_lookup
        /\ ~resp.out.handler_called
        /\ resp.out.user = None
        /\ resp.out.tokens_after = resp.before

\* A header with the wrong scheme label was denied on an API path.
C14_Witness ==
    /\ Handled /\ resp.path = <<"/api/orders/">>
    /\ resp.header = Header("Token", " ", 0)
    /\ resp.out.status = 401
    /\ resp.out.detail = "Invalid authentication format"

\* The permission check just made, in the terms the claims use.
Decorated == pres.op = "requires_permission" /\ pres.request # "none"
NamedList == permission_list(pres.permission_name, pres.permissions)
ClassChecked == pres.op = "has_permission"

\* What an access level asks of an attached user.
LevelAllows(level, u) ==
    \/ level \in {"public", "authenticated"}
    \/ level = "staff" /\ (u.is_staffuser \/ u.is_admin \/ u.is_superuser)
    \/ level = "admin" /\ (u.is_admin \/ u.is_superuser)
    \/ level = "superuser" /\ u.is_superuser

LevelOf(cls) ==
    CASE cls = "IsSuperUser" -> "superuser"
      [] cls = "IsAdminUser" -> "admin"
      [] OTHER -> "staff"

\* C15: with an identity attached, requires_permission without named
\* permissions and the classes IsSuperUser, IsAdminUser, IsStaffUser let the
\* request proceed exactly when the level allows the user, and deny with 403
\* otherwise.
C15_AccessLevels ==
    /\ (Decorated /\ pres.user.exists /\ NamedList = <<>>) =>
          IF LevelAllows(pres.access_level, pres.user)
          THEN pres.out.kind = "handler"
          ELSE pres.out.kind = "http_exception" /\ pres.out.status = 403
    /\ (ClassChecked /\ pres.user.exists
          /\ pres.permission.cls \in {"IsSuperUser", "IsAdminUser", "IsStaffUser"}) =>
          IF LevelAllows(LevelOf(pres.permission.cls), pres.user)
          THEN pres.raised.granted
          ELSE ~pres.raised.granted /\ pres.raised.status = 403

\* A superuser who is neither admin nor staff passed a route of level admin.
C15_Witness ==
    /\ Decorated /\ NamedList = <<>>
    /\ pres.access_level = "admin"
    /\ pres.user.exists /\ pres.user.is_superuser /\ ~pres.user.is_admin
    /\ pres.out.kind = "handler"

C17_SuperuserBypass ==
    (pres.user.exists /\ pres.user.is_superuser) =>
        /\ Decorated => pres.out.kind = "handler"
        /\ pres.op = "check_user_permissions" => pres.result
        /\ (ClassChecked /\ pres.permission.cls = "HasPermission") => pres.raised.granted

\* check_user_permissions was called for a superuser without permissions
\* and a list of two names, and returned True.
C17_Witness ==
    /\ pres.op = "check_user_permissions"
    /\ pres.user.is_superuser /\ pres.user.permissions = {}
    /\ Len(pres.permissions) = 2
    /\ pres.result

\* The requested permissions absent from a set of names, in the order
\* requested.
Absent(requested, names) == SelectSeq(requested, LAMBDA x : x \notin names)

\* C18: for a user who is no superuser the named-permission check denies
\* with 403 exactly when a requested permission is absent from the user's
\* set, and the denial lists the absent permissions, in the order requested,
\* and no other.
C18_MissingPermissionsListed ==
    (pres.user.exists /\ ~pres.user.is_superuser) =>
        /\ (ClassChecked /\ pres.permission.cls = "HasPermission") =>
              LET absent == Absent(pres.permission.required_permissions,
                                   pres.user.permissions)
              IN  IF absent = <<>> THEN pres.raised.granted
                  ELSE /\ ~pres.raised.granted
                       /\ pres.raised.status = 403
                       /\ pres.raised.missing = absent
        /\ (Decorated /\ pres.access_level # "public"
              /\ LevelAllows(pres.access_level, pres.user)) =>
              LET absent == Absent(NamedList, pres.user.permissions)
              IN  IF absent = <<>> THEN pres.out.kind = "handler"
                  ELSE /\ pres.out.kind = "http_exception"
                       /\ pres.out.status = 403
                       /\ pres.out.listed = absent

\* The group just checked and the answers of its branches to the same call.
GroupChecked(cls) ==
    /\ pres.op \in {"has_permission", "has_object_permission"}
    /\ pres.permission.cls = cls
ObjectLevel == pres.op = "has_object_permission"
BranchesOf == pres.permission.permission_classes
BranchResult(i) == Branch(BranchesOf[i], pres.user, pres.request, pres.obj, ObjectLevel)
Reversed(seq) == [i \in 1..Len(seq) |-> seq[Len(seq) + 1 - i]]

\* C19: a LogicalOR denies, in has_permission and in has_object_permission,
\* exactly when each of its branches denies, and grants or denies alike with
\* its branches in the reverse order.
C19_OrDeniesIffAllDeny ==
    GroupChecked("LogicalOR") =>
        /\ ~pres.raised.granted <=>
              \A i \in DOMAIN BranchesOf : ~BranchResult(i).granted
        /\ pres.raised.granted =
              Branch(Perm("LogicalOR", <<>>, Reversed(BranchesOf)), pres.user,
                     pres.request, pres.obj, ObjectLevel).granted

\* A LogicalOR whose first branch denies and whose second grants granted.
C19_Witness ==
    /\ GroupChecked("LogicalOR")
    /\ Len(BranchesOf) = 2
    /\ ~BranchResult(1).granted
    /\ BranchResult(2).granted
    /\ pres.raised.granted

\* The first branch, in declared order, of a list of permission objects
\* that denies the call; 0 when none does.
FirstDenying(ks, object) ==
    LET denying == { i \in DOMAIN ks :
                       ~Branch(ks[i], pres.user, pres.request, pres.obj, object).granted }
    IN  IF denying = {} THEN 0
        ELSE CHOOSE i \in denying : \A j \in denying : i <= j

\* An HTTPException carries the reason, status, detail and missing
\* permissions of a denial.
Carries(out, e) ==
    /\ out.kind = "http_exception"
    /\ out.status = e.status
    /\ out.error = e.reason
    /\ out.detail = e.detail
    /\ out.listed = e.missing

\* C20: a composed check that denies surfaces the denial of the first
\* denying branch in declared order: LogicalAND and the list of
\* permission_required stop at the first branch that denies and raise its
\* denial unchanged, LogicalOR raises the denial of its first branch.
C20_FirstDenialSurfaces ==
    /\ (GroupChecked("LogicalAND") /\ ~pres.raised.granted) =>
          /\ FirstDenying(BranchesOf, ObjectLevel) # 0
          /\ pres.raised = BranchResult(FirstDenying(BranchesOf, ObjectLevel))
    /\ (GroupChecked("LogicalOR") /\ ~pres.raised.granted /\ BranchesOf # <<>>) =>
          pres.raised = BranchResult(1)
    /\ (pres.op = "permission_required" /\ pres.request # "none"
          /\ pres.out.kind # "handler") =>
          LET ks == pres.permission_classes
              d1 == FirstDenying(ks, FALSE)
              d2 == FirstDenying(ks, TRUE)
          IN  IF d1 # 0
              THEN Carries(pres.out, Branch(ks[d1], pres.user, pres.request,
                                            pres.obj, FALSE))
              ELSE /\ pres.check_object /\ pres.obj # "none" /\ d2 # 0
                   /\ Carries(pres.out, Branch(ks[d2], pres.user, pres.request,
                                               pres.obj, TRUE))

\* A LogicalAND of two branches that both deny, for different reasons,
\* raised the denial of the first.
C20_Witness ==
    /\ GroupChecked("LogicalAND")
    /\ Len(BranchesOf) = 2
    /\ ~BranchResult(1).granted /\ ~BranchResult(2).granted
    /\ BranchResult(1).reason # BranchResult(2).reason
    /\ pres.raised.reason = BranchResult(1).reason

\* The PermissionManager call just made on an existing user, in the terms
\* the claims use.
Managed(op) == mres.op = op /\ mres.user_id \in Users
HeldBefore == Contains(mres.held_before, mres.permission_name)
HeldAfter == Contains(user_permissions[mres.user_id], mres.permission_name)
NothingChanged ==
    /\ permission_rows = mres.rows_before
    /\ user_permissions[mres.user_id] = mres.held_before

\* C21: on an existing user, assign_permission returns True exactly when the
\* name was not held, and the name is held afterwards; it returns False and
\* changes nothing when the name was held. revoke_permission returns True
\* exactly when the name was held, and the name is not held afterwards; it
\* returns False and changes nothing otherwise. get_user_permissions returns
\* the names held, each once.
C21_AssignRevokeList ==
    /\ Managed("assign_permission") =>
          /\ (mres.result = "True") <=> ~HeldBefore
          /\ HeldAfter
          /\ HeldBefore => (mres.result = "False" /\ NothingChanged)
    /\ Managed("revoke_permission") =>
          /\ (mres.result = "True") <=> HeldBefore
          /\ ~HeldAfter
          /\ ~HeldBefore => (mres.result = "False" /\ NothingChanged)
    /\ Managed("get_user_permissions") =>
          \A name \in PermNames :
              Cardinality({i \in DOMAIN mres.listed : mres.listed[i] = name})
                = IF Contains(user_permissions[mres.user_id], name) THEN 1 ELSE 0

\* The exemption lookup a caller just finished.
LookedUp(c) == lookups[c].stage = "done"

\* C22: whatever registrations, get_exempt_paths calls with changes to the
\* set returned, and lookups took place, the registry holds every baseline
\* prefix and every prefix ever registered, and a lookup reports a path
\* exempt exactly when the path equals or starts with a prefix of the
\* registry.
C22_RegistryKeepsAndDecides ==
    /\ BaselineExempt \subseteq exempt_paths
    /\ registered \subseteq exempt_paths
    /\ \A c \in Callers :
          LookedUp(c) =>
              (lookups[c].result <=>
                  \E prefix \in lookups[c].registry :
                      StartsWith(lookups[c].path, prefix))

\* A caller cleared the set get_exempt_paths gave it, and a lookup in the
\* registry still found a path under a registered prefix exempt.
C22_Witness ==
    /\ returned.held /\ returned.elems = {}
    /\ registered # {}
    /\ \E c \in Callers :
          /\ LookedUp(c)
          /\ lookups[c].path = <<"/shop", "ping">>
          /\ lookups[c].result

\* C23: request.state.user of a request is None from the start of dispatch
\* until its own checks resolve an identity, and from then on it is the
\* identity its own path, session and header resolved, whatever the other
\* requests in flight attach; the handler reads that identity.
C23_IdentityIsRequestScoped ==
    \A w \in Workers :
        /\ inflight[w].stage = "started" => request_state[w] = None
        /\ inflight[w].stage = "forwarded" => request_state[w] = inflight[w].resolved
        /\ inflight[w].stage = "handled" => inflight[w].seen = inflight[w].resolved

\* The handler of one request read its own identity while another request
\* was in flight with a different identity attached.
C23_Witness ==
    \E w \in Workers, v \in Workers :
        /\ w # v
        /\ inflight[w].stage = "handled" /\ inflight[w].seen = "u1"
        /\ inflight[v].stage = "forwarded" /\ inflight[v].resolved = "u2"

\* C24: when dispatch returns or raises, every store handle opened for the
\* request has been closed.
C24_HandlesClosed ==
    Handled => resp.out.db_closed = resp.out.db_opened

\* A request opened two handles, the lookup of the admin branch raised, and
\* both handles were closed when the redirect was returned.
C24_Witness ==
    /\ Handled /\ resp.out.store_error
    /\ resp.out.branch = "admin" /\ resp.out.kind = "redirect"
    /\ resp.out.db_opened = 2
    /\ resp.out.db_closed = 2

\* The lookup a caller is in, or just finished.
Looking(c) == lookups[c].stage # "idle"

\* C25: the set a lookup works on is the baseline with some of the prefixes
\* registered so far, and it holds every prefix whose registration was
\* complete when the lookup started.
C25_LookupSeesWholeSet ==
    \A c \in Callers :
        Looking(c) =>
            /\ BaselineExempt \subseteq lookups[c].copy
            /\ lookups[c].copy \subseteq BaselineExempt \cup registered
            /\ lookups[c].completed \subseteq lookups[c].copy

\* A registration completed while a lookup was between its copy and its
\* loop: the lookup works on the set without the new prefix.
C25_Witness ==
    \E c \in Callers :
        /\ lookups[c].stage = "copied"
        /\ lookups[c].completed = {<<"/shop">>}
        /\ registered = RegistryPrefixes
        /\ lookups[c].copy = BaselineExempt \cup {<<"/shop">>}

\* The session carries an identifier, so that the session step queried the
\* store.
SessionKeyed == SessionId(resp.session) # None

\* C26: a request in which a store operation raised gets no identity from
\* the step that raised. The session step attaches nothing and the request
\* goes on to its branch; a branch that raised answers with the redirect to
\* /admin/login (admin) or the 500 JSON response (token), the handler not
\* run; an identity is attached only by a branch whose own lookup succeeded
\* after the session lookup raised.
C26_StoreErrorAttachesNothing ==
    (Handled /\ resp.out.store_error) =>
        /\ resp.out.branch \in {"admin", "api"}
        /\ resp.out.user # None =>
              /\ SessionKeyed
              /\ is_active(resp.out.user)
              /\ resp.out.user = IF resp.out.branch = "admin"
                                 THEN resp.session.admin_user_id
                                 ELSE resp.before[Presented].user_id
        /\ resp.out.user = None =>
              /\ ~resp.out.handler_called
              /\ resp.out.branch = "admin" =>
                    /\ resp.out.kind = "redirect"
                    /\ resp.out.status = 302
                    /\ resp.out.detail = "/admin/login"
              /\ resp.out.branch = "api" =>
                    /\ resp.out.kind = "json"
                    /\ \/ resp.out.status = 500 /\ resp.out.detail = "Authentication error"
                       \/ SessionKeyed /\ resp.out.status = 401

\* The token lookup raised for a request without session: 500, no handler.
C26_Witness ==
    /\ Handled /\ resp.out.store_error
    /\ ~SessionKeyed
    /\ resp.out.branch = "api"
    /\ resp.out.status = 500
    /\ ~resp.out.handler_called

\* The access string a Token.refresh call left on the token.
NewHeader == Header("JWT", " ", rres.after.access_token)
OldHeader == Header("JWT", " ", rres.before.access_token)

\* C27: Token.refresh on a token of an active user, not past its refresh
\* expiry, succeeds, and the new access string authenticates the owner in
\* the middleware's token validation up to the new access expiry, also when
\* the token was seen expired before.
C27_RefreshedTokenAuthenticates ==
    (Refreshed /\ ~RefreshExpired /\ is_active(rres.before.user_id)) =>
        /\ rres.result = "ok"
        /\ \A t \in {rres.t2, rres.after.access_expires_at} :
              ValidateApiToken(NewHeader, "none", t).user = rres.before.user_id

\* C28: a token that is inactive in the store is inactive after every
\* operation: deactivate, validate, the expiry properties, refresh and the
\* middleware's token validation.
C28_InactiveStaysInactive ==
    [][ \A s \in Slots :
          (Present(tokens[s]) /\ ~tokens[s].is_active) =>
              (Present(tokens'[s]) /\ ~tokens'[s].is_active) ]_vars

\* Token.refresh rotated the access string of an inactive token and left it
\* inactive.
C28_Witness ==
    /\ Refreshed
    /\ ~rres.before.is_active
    /\ rres.after.access_token # rres.before.access_token
    /\ ~tokens[rres.slot].is_active

CredentialHolders ==
    ({resp.session.user_id, resp.session.admin_user_id} \ {None})
    \cup (IF ~Malformed(resp.header) /\ Presented # 0
          THEN {resp.before[Presented].user_id} ELSE {})

\* C30: an identity the middleware attaches is that of an active user, and
\* a request on a non-exempt path whose credentials all belong to
\* deactivated users gets no identity and does not reach the handler.
C30_OnlyActiveUsersAttached ==
    Handled =>
        /\ resp.out.user # None => (resp.out.user \in Users /\ is_active(resp.out.user))
        /\ (~WasExempt /\ CredentialHolders # {}
              /\ \A u \in CredentialHolders : ~is_active(u)) =>
              /\ resp.out.user = None
              /\ ~resp.out.handler_called

\* The deactivated user presented the active, unexpired token of its login
\* and was denied.
C30_Witness ==
    /\ Handled /\ ~WasExempt /\ Presented # 0
    /\ resp.before[Presented].user_id = "u3"
    /\ resp.before[Presented].is_active
    /\ resp.at <= resp.before[Presented].access_expires_at
    /\ resp.out.status = 401
    /\ resp.out.detail = "User not found or inactive"
    /\ ~resp.out.handler_called
====
